---- MODULE Spec2Model ----
(***************************************************************************)
(* Model of the jira-test command of smoogie/ai_tooling: the Repository    *)
(* Publisher (GitLabManager), the Metadata Extractor (TemplateAnalyzer)    *)
(* and the fence stripping of the two AI completions.                      *)
(*                                                                         *)
(* Five specifications share the variables of this module:                 *)
(*   Spec          GitLabManager.createTemplateAndMergeRequest             *)
(*   SpecAnalyzer  TemplateAnalyzer.analyzeTicketDescription               *)
(*   SpecClean     cleanJsonResponse / cleanGeneratedCode                  *)
(*   SpecCommand   handleCommand with the stages it invokes                *)
(*   SpecPrompt    the prompts of the generator and of the extractor       *)
(* Strings the code inspects character by character are sequences of       *)
(* one-character strings; paths are sequences of directory names.          *)
(***************************************************************************)
EXTENDS FiniteSets, Integers, Sequences, TLC

VARIABLES
    \* ---- Repository Publisher (GitLabManager) ----
    variant,        \* which of the two GitLabManager sources the instance is
    pc,             \* position inside createTemplateAndMergeRequest
    cwd,            \* process.cwd()
    entryCwd,       \* process.cwd() when the current invocation was entered
    dirs,           \* the temp_git directories that exist on disk (paths)
    files,          \* directories D such that D/templates/<name>.html exists
    defaultBranch,  \* this.defaultBranch
    mrInfo,         \* the MergeRequestInfo argument
    ran,            \* stages entered by the current invocation, in order
    cleanupCalls,   \* number of calls of cleanup() in the current invocation
    cleanupDone,    \* TRUE when the last call of cleanup() returned normally
    cloned,         \* TRUE when cloneRepository returned normally
    caught,         \* the error caught by the catch block, "none" before
    delivered,      \* the error thrown to the caller, "none" otherwise
    detectIn,       \* what the two git queries of detectDefaultBranch answered
    pushed,         \* branches pushed to the remote by this invocation
    mrCalls,        \* MergeRequests.create calls issued by this invocation
    invocations,    \* number of invocations on this instance so far
    detected,       \* this.defaultBranch as detectDefaultBranch left it
    lookup,         \* what the project lookups of createMergeRequest answered
    config,         \* this.config: the token and the repository path
    message,        \* the message of the error in flight, <<>> when none
    printed,        \* lines written with console.log / console.error that
                    \* interpolate the configuration or an error
    \* ---- Metadata Extractor (TemplateAnalyzer) ----
    apc,            \* position inside analyzeTicketDescription
    ticketKey,      \* the ticketKey argument
    completion,     \* the cleaned completion handed to JSON.parse
    thrownAt,       \* where the inner try block threw: parse/validate/type
    outcome,        \* what analyzeTicketDescription gave its caller
    \* ---- fence stripping ----
    cpc,            \* position of the fence stripping check
    body,           \* a completion text with no fencing added
    wrapping,       \* the fence and the stray backticks put around body
    wrapped,        \* body inside that wrapping
    cleanedBody,    \* the cleaner applied to body
    cleanedWrapped, \* the cleaner applied to wrapped
    \* ---- the command (ComandHandler.ts) ----
    hpc,            \* position inside the module and handleCommand
    options,        \* the options argument of handleCommand
    issue,          \* what jira.findIssue answered
    called,         \* the stages handleCommand has invoked, in order
    completed,      \* the stages that have returned successfully, in order
    failedAt,       \* the stage whose error the catch block caught
    \* ---- prompt construction ----
    ppc,            \* position of the prompt construction check
    templateName,   \* argument of generateEmailTemplate
    description,    \* argument of generateEmailTemplate
    variables,      \* argument of generateEmailTemplate: a list of texts
    promptKey,      \* the ticketKey argument of analyzeTicketDescription
    ticketText,     \* the description argument of analyzeTicketDescription
    prompt,         \* the prompt generateEmailTemplate sends
    analysisPrompt  \* the prompt analyzeTicketDescription sends

pubVars == <<variant, pc, cwd, entryCwd, dirs, files, defaultBranch, mrInfo,
             ran, cleanupCalls, cleanupDone, cloned, caught, delivered,
             detectIn, pushed, mrCalls, invocations, detected, lookup,
             config, message, printed>>
anVars  == <<apc, ticketKey, completion, thrownAt, outcome>>
clVars  == <<cpc, body, wrapping, wrapped, cleanedBody, cleanedWrapped>>
cmdVars == <<hpc, options, issue, called, completed, failedAt>>
prVars  == <<ppc, templateName, description, variables, promptKey, ticketText,
             prompt, analysisPrompt>>
vars    == <<pubVars, anVars, clVars, cmdVars, prVars>>

(***************************************************************************)
(* Bounds                                                                  *)
(***************************************************************************)
MaxInvocations == 2     \* invocations on one GitLabManager instance
MaxBodyLen == 3         \* length of an unfenced completion text

(***************************************************************************)
(* Paths and the file system                                               *)
(***************************************************************************)
tempDir == "temp_git"

\* path.resolve(p, '..'): the parent of the root is the root
Parent(p) == IF p = <<>> THEN <<>> ELSE SubSeq(p, 1, Len(p) - 1)

\* path.resolve(p, this.tempDir)
TempPath(p) == Append(p, tempDir)

IsPrefix(p, q) == Len(p) <= Len(q) /\ SubSeq(q, 1, Len(p)) = p

\* fs.rmSync(d, { recursive: true, force: true }) on a set of paths
RemoveTree(d, S) == {x \in S : ~IsPrefix(d, x)}

\* working directories a run may be started in
StartDirs == {<<>>, <<"w">>, <<"w", "p">>}


(***************************************************************************)
(* Repository Publisher: names, inputs                                     *)
(***************************************************************************)
New == "part_001"               \* GitLabManager with the hosting API client
Old == "GitLabManager.ts"       \* GitLabManager that prints the instructions
Variants == {New, Old}

\* branch names, as the characters `includes` and the regular expression see
MainB    == <<"m", "a", "i", "n">>
MasterB  == <<"m", "a", "s", "t", "e", "r">>
Main2B   == <<"m", "a", "i", "n", "2">>
DevelopB == <<"d", "e", "v">>
NoBranch == <<>>
RemoteBranches == {MainB, MasterB, Main2B, DevelopB}

\* answers of `git remote show origin`: the command fails, its output has
\* no (or an empty) "HEAD branch: " capture, or it names a branch
ShowFails == "fails"
ShowNoHead == "nohead"
ShowHead == "head"
NoDetect == [show |-> "unasked", head |-> NoBranch, listOk |-> TRUE, branches |-> {}]
DetectAnswers ==
    {[show |-> ShowHead, head |-> h, listOk |-> TRUE, branches |-> {}] : h \in RemoteBranches}
    \cup {[show |-> ShowFails, head |-> NoBranch, listOk |-> TRUE, branches |-> {}]}
    \cup {[show |-> ShowNoHead, head |-> NoBranch, listOk |-> FALSE, branches |-> {}]}
    \cup {[show |-> ShowNoHead, head |-> NoBranch, listOk |-> TRUE, branches |-> B] :
              B \in SUBSET RemoteBranches}

\* branches.includes('remotes/origin/' + name): `git branch -a` prints one
\* line "  remotes/origin/<branch>" per remote branch, and includes() is a
\* substring test on that text
ListingIncludes(B, name) == \E b \in B : IsPrefix(name, b)

MergeRequestInfos ==
    {[title |-> "t1", description |-> "d1", branchName |-> "f1", commitMessage |-> "c1"],
     [title |-> "t2", description |-> "d2", branchName |-> "f2", commitMessage |-> "c2"]}
NoInfo == [title |-> "", description |-> "", branchName |-> "", commitMessage |-> ""]

\* errors, named after the place that threw them
ErrClone == "cloneRepository"
ErrBranch == "createBranch"
ErrSave == "saveTemplate"
ErrCommit == "commitAndPush"
ErrMR == "createMergeRequest"
ErrCleanupTry == "cleanup (line 80)"
ErrCleanupCatch == "cleanup (line 89)"
NoError == "none"

\* this.config.repoName, split at '/'
repoName == <<"grp", "app">>

\* projects the hosting API may answer with
Project(i, pwn, pa, na, db) ==
    [id |-> i, path_with_namespace |-> pwn, path |-> pa, name |-> na, default_branch |-> db]
ProjectBranches == {NoBranch, DevelopB}
Projects ==
    {Project(1, <<"grp", "app">>, "app", "App", db) : db \in ProjectBranches}
    \cup {Project(2, <<"old", "app">>, "app", "legacy", db) : db \in ProjectBranches}
    \cup {Project(3, <<"grp", "site">>, "site", "app", db) : db \in ProjectBranches}
    \cup {Project(4, <<"grp", "lib">>, "lib", "lib", db) : db \in ProjectBranches}
NoProject == Project(0, <<>>, "", "", NoBranch)
\* no lookup has been made
NoLookup == [asked |-> FALSE, direct |-> NoProject, searchOk |-> TRUE, list |-> <<>>]
\* answers of Projects.all: lists of at most two projects
ProjectLists ==
    {<<>>} \cup {<<p>> : p \in Projects}
    \cup {l \in {<<p, q>> : p \in Projects, q \in Projects} : l[1].id # l[2].id}

\* Array.prototype.find: the first element of the hits, or undefined
First(hits) == IF hits = <<>> THEN NoProject ELSE Head(hits)

\* this.config: GITLAB_TOKEN and REPO_NAME as the environment gives them,
\* "" when the variable is not set (or set to nothing)
RepoPath == "grp/app"
baseUrl == "https://gitlab.com"
Tokens == {"", "glpat-A"}
Configs == [token : Tokens, repoName : {"", RepoPath}]

\* lines 30-36 of part_001 throw; lines 25-31 of GitLabManager.ts put ''
ConstructorThrows(v, c) == v = New /\ (c.token = "" \/ c.repoName = "")

\* the configurations an existing GitLabManager instance can hold
ConfigsOf(v) == {c \in Configs : ~ConstructorThrows(v, c)}

\* texts are sequences of parts; an interpolated value is one part
NoMessage == <<>>

\* the command of line 149 (line 81 of GitLabManager.ts), with repoUrl of
\* line 145 (line 80) inside
CloneCommand(c) ==
    <<"git clone https://oauth2:", c.token, "@gitlab.com/", c.repoName, ".git temp_git">>

\* child_process.execSync: the message of the error of a failed command
\* (a branch name or commit message inside a command is not spelled out)
CommandFailed(cmd) == <<"Command failed: ">> \o cmd

\* messages of the other errors
RmFailedMsg == <<"EACCES: permission denied, rm 'temp_git'">>
ChdirFailedMsg == <<"ENOENT: no such file or directory, chdir -> 'temp_git'">>
WriteFailedMsg == <<"EACCES: permission denied, open">>
ProjectNotFoundMsg(c) ==
    <<"Project ", c.repoName,
      " not found. Please check your GITLAB_TOKEN and REPO_NAME environment variables.">>
ApiFailedMsg == <<"Request failed">>

\* console.error(label, error): the label, then the error with its message
LogError(label, msg) == <<label>> \o msg

(***************************************************************************)
(* Repository Publisher: the stages                                        *)
(***************************************************************************)
\* line 58 / the rejection of an awaited stage: control enters the catch block
Fail(e) == /\ caught' = e
           /\ pc' = "catch"

\* lines 53-58: the call with the MergeRequestInfo info
Invocation(info) ==
    /\ pc \in {"idle", "returned", "thrown"}
    /\ invocations < MaxInvocations
    /\ invocations' = invocations + 1
    /\ mrInfo' = info
    /\ entryCwd' = cwd
    /\ pc' = "clone"
    /\ ran' = <<>>
    /\ cleanupCalls' = 0
    /\ cleanupDone' = FALSE
    /\ cloned' = FALSE
    /\ caught' = NoError
    /\ delivered' = NoError
    /\ detectIn' = NoDetect
    /\ pushed' = {}
    /\ mrCalls' = <<>>
    /\ detected' = NoBranch
    /\ lookup' = NoLookup
    /\ message' = NoMessage
    /\ UNCHANGED <<variant, cwd, dirs, files, defaultBranch, config>>

\* an invocation on its own: printed holds the lines of the current invocation
createTemplateAndMergeRequest ==
    /\ \E info \in MergeRequestInfos : Invocation(info)
    /\ printed' = {}

cloneRepository ==
    /\ pc = "clone"
    /\ ran' = Append(ran, "clone")
    /\ \E rmOk \in BOOLEAN, cloneOk \in BOOLEAN, leftBehind \in BOOLEAN :
         LET target == TempPath(cwd)
             cleared == RemoveTree(target, dirs)
             thrown == IF ~rmOk THEN RmFailedMsg
                                ELSE CommandFailed(CloneCommand(config))
             \* line 146, reached when the directory is out of the way
             line146 == IF variant = New /\ rmOk
                           THEN {<<"Cloning from: ", baseUrl, "/", config.repoName>>}
                           ELSE {}
         IN  /\ ~rmOk => target \in dirs
             /\ IF ~rmOk
                   THEN /\ Fail(ErrClone)
                        /\ UNCHANGED <<dirs, files, cloned>>
                   ELSE /\ files' = RemoveTree(target, files)
                        /\ IF cloneOk
                              THEN /\ ~leftBehind
                                   /\ dirs' = cleared \cup {target}
                                   /\ cloned' = TRUE
                                   /\ pc' = IF variant = New THEN "detect" ELSE "branch"
                                   /\ UNCHANGED caught
                              ELSE /\ dirs' = IF leftBehind THEN cleared \cup {target}
                                                            ELSE cleared
                                   /\ Fail(ErrClone)
                                   /\ UNCHANGED cloned
             /\ IF rmOk /\ cloneOk
                   THEN /\ printed' = printed \cup line146
                        /\ UNCHANGED message
                   ELSE IF variant = New
                   THEN \* lines 152-155: log the error, throw one that quotes it
                        /\ printed' = printed \cup line146
                                \cup {LogError("Error cloning repository:", thrown)}
                        /\ message' = <<"Failed to clone repository: ">> \o thrown
                                \o <<". Please check your GITLAB_TOKEN and REPO_NAME.">>
                   ELSE \* GitLabManager.ts: the error leaves cloneRepository as it is
                        /\ UNCHANGED printed
                        /\ message' = thrown
    /\ UNCHANGED <<variant, cwd, entryCwd, defaultBranch, mrInfo, cleanupCalls,
                   cleanupDone, delivered, detectIn, pushed, mrCalls, invocations,
                   detected, lookup, config>>

\* the value detectDefaultBranch leaves in this.defaultBranch
DetectedBranch(a, current) ==
    IF a.show = ShowFails THEN current
    ELSE IF a.show = ShowHead /\ a.head # NoBranch THEN a.head
    ELSE IF ~a.listOk THEN current
    ELSE IF ListingIncludes(a.branches, MainB) THEN MainB
    ELSE IF ListingIncludes(a.branches, MasterB) THEN MasterB
    ELSE current

detectDefaultBranch ==
    /\ pc = "detect"
    /\ ran' = Append(ran, "detect")
    /\ \E a \in DetectAnswers :
         /\ detectIn' = a
         /\ defaultBranch' = DetectedBranch(a, defaultBranch)
         /\ detected' = DetectedBranch(a, defaultBranch)
         \* line 129: the error of the git query that failed is logged
         /\ printed' = printed \cup
                IF a.show = ShowFails
                   THEN {LogError("Error detecting default branch:",
                                  CommandFailed(<<"git remote show origin">>))}
                ELSE IF ~a.listOk
                   THEN {LogError("Error detecting default branch:",
                                  CommandFailed(<<"git branch -a">>))}
                ELSE {}
    /\ pc' = "branch"
    /\ UNCHANGED <<variant, cwd, entryCwd, dirs, files, mrInfo, cleanupCalls,
                   cleanupDone, cloned, caught, delivered, pushed, mrCalls,
                   invocations, lookup, config, message>>

createBranch ==
    /\ pc = "branch"
    /\ ran' = Append(ran, "branch")
    /\ detectIn' = NoDetect
    /\ \E chdirOk \in BOOLEAN, checkoutOk \in BOOLEAN :
         /\ chdirOk => TempPath(cwd) \in dirs
         /\ ~chdirOk => checkoutOk
         /\ cwd' = IF chdirOk THEN TempPath(cwd) ELSE cwd
         /\ IF chdirOk /\ checkoutOk
               THEN pc' = "save" /\ UNCHANGED <<caught, message>>
               ELSE /\ Fail(ErrBranch)
                    /\ message' = IF ~chdirOk THEN ChdirFailedMsg
                                   ELSE CommandFailed(<<"git checkout -b <branchName>">>)
    /\ UNCHANGED <<variant, entryCwd, dirs, files, defaultBranch, mrInfo,
                   cleanupCalls, cleanupDone, cloned, delivered, pushed,
                   mrCalls, invocations, detected, lookup, config, printed>>

saveTemplate ==
    /\ pc = "save"
    /\ ran' = Append(ran, "save")
    /\ \E writeOk \in BOOLEAN :
         IF writeOk
            THEN /\ files' = files \cup {cwd}
                 /\ pc' = "commit"
                 /\ UNCHANGED <<caught, message>>
            ELSE /\ Fail(ErrSave)
                 /\ message' = WriteFailedMsg
                 /\ UNCHANGED files
    /\ UNCHANGED <<variant, cwd, entryCwd, dirs, defaultBranch, mrInfo,
                   cleanupCalls, cleanupDone, cloned, delivered, detectIn,
                   pushed, mrCalls, invocations, detected, lookup, config, printed>>

commitAndPush ==
    /\ pc = "commit"
    /\ \E result \in {"ok", "add fails", "commit fails", "push fails"} :
         /\ ran' = IF result \in {"add fails", "commit fails"}
                      THEN Append(ran, "commit")
                      ELSE ran \o <<"commit", "push">>
         /\ IF result = "ok"
               THEN /\ pushed' = pushed \cup {mrInfo.branchName}
                    /\ pc' = "mr"
                    /\ UNCHANGED <<caught, message>>
               ELSE /\ Fail(ErrCommit)
                    /\ message' = CommandFailed(
                          IF result = "add fails" THEN <<"git add .">>
                          ELSE IF result = "commit fails"
                             THEN <<"git commit -m <commitMessage>">>
                          ELSE <<"git push origin <branchName>">>)
                    /\ UNCHANGED pushed
    /\ UNCHANGED <<variant, cwd, entryCwd, dirs, files, defaultBranch, mrInfo,
                   cleanupCalls, cleanupDone, cloned, delivered, detectIn,
                   mrCalls, invocations, detected, lookup, config, printed>>


\* lines 232-243: the tests of the two projects.find calls
IsExactMatch(p) == p.path_with_namespace = repoName
IsPartialMatch(p) ==
    LET lastPart == repoName[Len(repoName)]
    IN  \/ p.path_with_namespace = repoName
        \/ p.path = lastPart
        \/ p.name = lastPart

\* lines 206-259 without the exact-match pass of line 232
ResolveProject_FirstPartial(direct, list) ==
    IF direct # NoProject THEN direct
    ELSE First(SelectSeq(list, IsPartialMatch))

\* lines 206-259: the project the merge request is created against
ResolveProject(direct, list) ==
    LET exact == First(SelectSeq(list, IsExactMatch))
    IN  IF direct # NoProject THEN direct
        ELSE IF exact # NoProject THEN exact
        ELSE First(SelectSeq(list, IsPartialMatch))

createMergeRequest ==
    /\ pc = "mr"
    /\ ran' = Append(ran, "mr")
    /\ IF variant = Old
          THEN \* lines 130-145 of GitLabManager.ts: only prints the instructions
               /\ pc' = "cleanup"
               /\ printed' = printed \cup
                      {<<"1. Go to ", baseUrl, "/", config.repoName, "/merge_requests/new">>}
               /\ UNCHANGED <<defaultBranch, mrCalls, caught, lookup, message>>
          ELSE \E direct \in {NoProject} \cup {p \in Projects : p.path_with_namespace = repoName},
                  searchOk \in BOOLEAN, list \in ProjectLists, createOk \in BOOLEAN :
                 LET project == ResolveProject(direct, list)
                     target == IF project.default_branch # NoBranch
                                  THEN project.default_branch
                                  ELSE defaultBranch
                 IN  /\ direct # NoProject => searchOk /\ list = <<>>
                     /\ ~searchOk => list = <<>> /\ createOk
                     /\ project = NoProject => createOk
                     /\ lookup' = [asked |-> TRUE, direct |-> direct,
                                   searchOk |-> searchOk, list |-> list]
                     /\ LET \* lines 211, 221 and 224
                             lookups ==
                                 {<<"Looking up project directly: ", config.repoName>>}
                                 \cup IF direct # NoProject THEN {}
                                      ELSE {<<"Direct lookup failed: ">> \o ApiFailedMsg,
                                            <<"Searching for projects with name: ",
                                              config.repoName>>}
                             thrown == IF direct = NoProject /\ searchOk /\ project = NoProject
                                          THEN ProjectNotFoundMsg(config)
                                          ELSE ApiFailedMsg
                             failed == \/ (direct = NoProject /\ ~searchOk)
                                       \/ project = NoProject
                                       \/ ~createOk
                        IN  IF failed
                               THEN \* lines 277-280
                                    /\ printed' = printed \cup lookups \cup
                                          {LogError("Error creating merge request:", thrown)}
                                    /\ message' = thrown
                               ELSE /\ printed' = printed \cup lookups
                                    /\ UNCHANGED message
                     /\ IF (direct = NoProject /\ ~searchOk) \/ project = NoProject
                           THEN /\ Fail(ErrMR)
                                /\ UNCHANGED <<defaultBranch, mrCalls>>
                           ELSE /\ defaultBranch' = target
                                /\ mrCalls' = Append(mrCalls,
                                      [project |-> project.id,
                                       source |-> mrInfo.branchName,
                                       target |-> target,
                                       title |-> mrInfo.title,
                                       description |-> mrInfo.description,
                                       removeSourceBranch |-> TRUE,
                                       created |-> createOk])
                                /\ IF createOk
                                      THEN pc' = "cleanup" /\ UNCHANGED caught
                                      ELSE Fail(ErrMR)
    /\ UNCHANGED <<variant, cwd, entryCwd, dirs, files, mrInfo, cleanupCalls,
                   cleanupDone, cloned, delivered, detectIn, pushed, invocations,
                   detected, config>>

\* one call of cleanup(): rmOk = FALSE is fs.rmSync throwing; it is only
\* called when existsSync found the directory. process.chdir('..') is
\* taken to succeed: the parent of a working directory exists.
cleanup(rmOk) ==
    LET target == TempPath(Parent(cwd))
    IN  /\ ~rmOk => target \in dirs
        /\ cleanupCalls' = cleanupCalls + 1
        /\ ran' = Append(ran, "cleanup")
        /\ cwd' = Parent(cwd)
        /\ dirs' = IF rmOk THEN RemoveTree(target, dirs) ELSE dirs
        /\ files' = IF rmOk /\ target \in dirs THEN RemoveTree(target, files) ELSE files
        /\ cleanupDone' = rmOk

\* lines 296-298 of part_001 log the error of cleanup(); GitLabManager.ts
\* has no such handler
CleanupLog == IF variant = New THEN {LogError("Error during cleanup:", RmFailedMsg)}
                               ELSE {}

\* line 80: cleanup() inside the try block
cleanupInTry ==
    /\ pc = "cleanup"
    /\ \E rmOk \in BOOLEAN :
         /\ cleanup(rmOk)
         /\ IF rmOk
               THEN /\ pc' = "returned"
                    /\ UNCHANGED <<caught, message, printed>>
               ELSE /\ Fail(ErrCleanupTry)
                    /\ message' = RmFailedMsg
                    /\ printed' = printed \cup CleanupLog
    /\ lookup' = NoLookup
    /\ UNCHANGED <<variant, entryCwd, defaultBranch, mrInfo, cloned, delivered,
                   detectIn, pushed, mrCalls, invocations, detected, config>>

\* lines 87-91: the catch block
cleanupInCatch ==
    /\ pc = "catch"
    /\ \E rmOk \in BOOLEAN :
         /\ cleanup(rmOk)
         /\ delivered' = IF rmOk THEN caught ELSE ErrCleanupCatch
         /\ message' = IF rmOk THEN message ELSE RmFailedMsg
         \* line 88 (line 65 of GitLabManager.ts) logs the caught error
         /\ printed' = printed \cup {LogError("Error in GitLab operations:", message)}
                            \cup IF rmOk THEN {} ELSE CleanupLog
    /\ pc' = "thrown"
    /\ lookup' = NoLookup
    /\ UNCHANGED <<variant, entryCwd, defaultBranch, mrInfo, cloned, caught,
                   detectIn, pushed, mrCalls, invocations, detected, config>>

(***************************************************************************)
(* Metadata Extractor: JSON values and strings                             *)
(***************************************************************************)
MaxBranchLen == 3       \* length of the branchName the completion proposes
MaxOddFields == 2       \* fields of a candidate that differ from a valid one

\* JavaScript values a JSON member can hold; undefined is an absent member
Undef == [t |-> "undefined", s |-> <<>>, n |-> 0]
Null == [t |-> "null", s |-> <<>>, n |-> 0]
Str(x) == [t |-> "string", s |-> x, n |-> 0]
Num(k) == [t |-> "number", s |-> <<>>, n |-> k]
Bool(b) == [t |-> "boolean", s |-> <<>>, n |-> IF b THEN 1 ELSE 0]
Arr(k) == [t |-> "array", s |-> <<>>, n |-> k]

\* ToBoolean: what `!v` negates
Truthy(v) ==
    CASE v.t \in {"undefined", "null"} -> FALSE
      [] v.t = "string" -> v.s # <<>>
      [] v.t = "number" -> v.n # 0
      [] v.t = "boolean" -> v.n = 1
      [] OTHER -> TRUE

\* String.prototype.toLowerCase on the characters of the model
LowerChar(c) ==
    CASE c = "P" -> "p"
      [] c = "X" -> "x"
      [] OTHER -> c
toLowerCase(x) == [i \in 1..Len(x) |-> LowerChar(x[i])]

\* String.prototype.startsWith
startsWith(x, prefix) == IsPrefix(prefix, x)

RECURSIVE StringsUpTo(_, _)
StringsUpTo(A, k) ==
    IF k = 0 THEN {<<>>}
    ELSE LET shorter == StringsUpTo(A, k - 1)
         IN  shorter \cup {Append(x, c) : x \in shorter, c \in A}

RequiredFields == {"templateName", "variables", "description", "mergeRequestTitle",
                   "mergeRequestDescription", "branchName", "commitMessage"}

\* a completion that satisfies the prompt, proposing the branch name b
ValidFields(b) ==
    [templateName |-> Str(<<"x">>), variables |-> Arr(2), description |-> Str(<<"x">>),
     mergeRequestTitle |-> Str(<<"x">>), mergeRequestDescription |-> Str(<<"x">>),
     branchName |-> Str(b), commitMessage |-> Str(<<"x">>)]
NoFields == [f \in RequiredFields |-> Undef]

OddValues == {Undef, Null, Str(<<>>), Num(0), Num(5), Bool(FALSE), Bool(TRUE), Arr(0)}

BranchTexts == StringsUpTo({"P", "p", "1", "X", "-"}, MaxBranchLen) \ {<<>>}
TicketKeys == {<<"P", "1">>, <<"p", "1">>, <<"P">>, <<"X", "p">>}

\* the candidates of F with at most k members replaced by odd values
RECURSIVE Altered(_, _)
Altered(F, k) ==
    IF k = 0 THEN F
    ELSE LET fewer == Altered(F, k - 1)
         IN  fewer \cup {[g EXCEPT ![f] = v] : g \in fewer, f \in RequiredFields, v \in OddValues}

\* what the cleaned completion is when read as JSON
Doc(k, f) == [kind |-> k, fields |-> f]
Completions ==
    {Doc(k, NoFields) : k \in {"malformed", "null", "number", "string", "array"}}
    \cup {Doc("object", ValidFields(b)) : b \in BranchTexts}
    \cup {Doc("object", g) : g \in Altered({ValidFields(<<"P", "1", "-">>)}, MaxOddFields)}

(***************************************************************************)
(* Metadata Extractor: analyzeTicketDescription                            *)
(***************************************************************************)
ParseFailedMsg == "Failed to parse template analysis response as JSON"
MissingFieldsMsg == "Invalid template analysis response: missing required fields"
BackendMsg == "generateContent rejected"

\* analysis.<f> on the value JSON.parse returned
Member(doc, f) == IF doc.kind = "object" THEN doc.fields[f] ELSE Undef

\* the test of lines 90-92 with its last operand forgotten
MissingRequired_ForgetsCommitMessage(doc) ==
    \/ ~Truthy(Member(doc, "templateName"))
    \/ ~Truthy(Member(doc, "variables"))
    \/ ~Truthy(Member(doc, "description"))
    \/ ~Truthy(Member(doc, "mergeRequestTitle"))
    \/ ~Truthy(Member(doc, "mergeRequestDescription"))
    \/ ~Truthy(Member(doc, "branchName"))

\* lines 90-92: the test guarding the throw of line 93
MissingRequired(doc) ==
    \/ ~Truthy(Member(doc, "templateName"))
    \/ ~Truthy(Member(doc, "variables"))
    \/ ~Truthy(Member(doc, "description"))
    \/ ~Truthy(Member(doc, "mergeRequestTitle"))
    \/ ~Truthy(Member(doc, "mergeRequestDescription"))
    \/ ~Truthy(Member(doc, "branchName"))
    \/ ~Truthy(Member(doc, "commitMessage"))

\* lines 97-99 with the prefix built from the strings as given
NormalizeBranchName_KeepsCase(branchName, key) ==
    IF ~startsWith(toLowerCase(branchName), toLowerCase(key))
       THEN key \o <<"-">> \o branchName
       ELSE branchName

\* lines 97-99
NormalizeBranchName(branchName, key) ==
    IF ~startsWith(toLowerCase(branchName), toLowerCase(key))
       THEN toLowerCase(key) \o <<"-">> \o toLowerCase(branchName)
       ELSE branchName

\* lines 86-101: where the inner try block throws, "none" when it returns
InnerThrow(doc) ==
    IF doc.kind = "malformed" THEN "parse"          \* JSON.parse: SyntaxError
    ELSE IF doc.kind = "null" THEN "type"           \* null.templateName: TypeError
    ELSE IF MissingRequired(doc) THEN "validate"    \* line 93
    ELSE IF doc.fields.branchName.t # "string" THEN "type"  \* toLowerCase is not a function
    ELSE "none"

Thrown(m) == [kind |-> "throw", name |-> "Error", msg |-> m, analysis |-> NoFields]
Returned(a) == [kind |-> "return", name |-> "", msg |-> "", analysis |-> a]

\* lines 86-106: the inner try with its catch, which replaces whatever was
\* thrown inside by the error of line 105
ParseAndValidate(doc, key) ==
    IF InnerThrow(doc) # "none"
       THEN Thrown(ParseFailedMsg)
       ELSE Returned([doc.fields EXCEPT
                        !.branchName = Str(NormalizeBranchName(doc.fields.branchName.s, key))])

\* lines 76-78: the prompt is built and sent
analyzeTicketDescription ==
    /\ apc = "start"
    /\ apc' = "awaiting"
    /\ UNCHANGED <<ticketKey, completion, thrownAt, outcome>>

\* line 78 rejects; lines 107-110 log and rethrow
generateContentFails ==
    /\ apc = "awaiting"
    /\ apc' = "done"
    /\ thrownAt' = "backend"
    /\ outcome' = Thrown(BackendMsg)
    /\ UNCHANGED <<ticketKey, completion>>

\* lines 79-106: the completion arrives, is cleaned, parsed and validated
parseCompletion ==
    /\ apc = "awaiting"
    /\ apc' = "done"
    /\ thrownAt' = InnerThrow(completion)
    /\ outcome' = ParseAndValidate(completion, ticketKey)
    /\ UNCHANGED <<ticketKey, completion>>

(***************************************************************************)
(* Fence stripping: cleanJsonResponse and cleanGeneratedCode               *)
(***************************************************************************)
Backtick == "BACKTICK"     \* the character U+0060
Newline == "\n"
Fence == <<Backtick, Backtick, Backtick>>
JsonTag == <<"j", "s", "o", "n">>
HtmlTag == <<"h", "t", "m", "l">>
JsTag == <<"j", "s">>
NoTag == <<>>

\* text.replace(/<marker>\n?/g, ''): every match, found left to right, is
\* removed together with one newline that follows it
RECURSIVE RemoveAll(_, _)
RemoveAll(text, marker) ==
    IF text = <<>> THEN <<>>
    ELSE IF IsPrefix(marker, text)
       THEN LET rest == SubSeq(text, Len(marker) + 1, Len(text))
            IN  RemoveAll(IF rest # <<>> /\ Head(rest) = Newline THEN Tail(rest) ELSE rest,
                          marker)
       ELSE <<Head(text)>> \o RemoveAll(Tail(text), marker)

IsSpace(c) == c \in {" ", Newline}

\* String.prototype.trim
RECURSIVE trimStart(_)
trimStart(text) ==
    IF text # <<>> /\ IsSpace(Head(text)) THEN trimStart(Tail(text)) ELSE text
RECURSIVE trimEnd(_)
trimEnd(text) ==
    IF text # <<>> /\ IsSpace(text[Len(text)])
       THEN trimEnd(SubSeq(text, 1, Len(text) - 1))
       ELSE text
trim(text) == trimEnd(trimStart(text))

\* lines 59-71 of TemplateAnalyzer.ts, lines 97-109 of AddCommand.ts
StripStrayBackticks(text) ==
    LET cleaned == trim(text)
        noLead == IF cleaned # <<>> /\ Head(cleaned) = Backtick THEN Tail(cleaned) ELSE cleaned
        noTrail == IF noLead # <<>> /\ noLead[Len(noLead)] = Backtick
                      THEN SubSeq(noLead, 1, Len(noLead) - 1)
                      ELSE noLead
    IN  trim(noTrail)

cleanJsonResponse(text) ==
    StripStrayBackticks(RemoveAll(RemoveAll(text, Fence \o JsonTag), Fence))

cleanGeneratedCode(code) ==
    StripStrayBackticks(RemoveAll(RemoveAll(code, Fence \o HtmlTag), Fence))

\* the completions and the ways a backend wraps them
Bodies == StringsUpTo({"x", Backtick, " ", Newline}, MaxBodyLen)
Unfenced == "unfenced"
Wrappings ==
    {w \in [fence : {Unfenced, NoTag, JsonTag, HtmlTag, JsTag}, lead : BOOLEAN, trail : BOOLEAN] :
        w.fence # Unfenced \/ w.lead \/ w.trail}
Wrap(text, w) ==
    LET inner == IF w.fence = Unfenced THEN text
                 ELSE Fence \o w.fence \o <<Newline>> \o text \o <<Newline>> \o Fence
    IN  (IF w.lead THEN <<Backtick>> ELSE <<>>) \o inner
        \o (IF w.trail THEN <<Backtick>> ELSE <<>>)

\* TemplateAnalyzer.ts line 83
applyCleanJsonResponse ==
    /\ cpc = "start"
    /\ cpc' = "json"
    /\ cleanedBody' = cleanJsonResponse(body)
    /\ cleanedWrapped' = cleanJsonResponse(wrapped)
    /\ UNCHANGED <<body, wrapping, wrapped>>

\* AddCommand.ts line 82
applyCleanGeneratedCode ==
    /\ cpc = "start"
    /\ cpc' = "html"
    /\ cleanedBody' = cleanGeneratedCode(body)
    /\ cleanedWrapped' = cleanGeneratedCode(wrapped)
    /\ UNCHANGED <<body, wrapping, wrapped>>

(***************************************************************************)
(* The command: ComandHandler.ts                                           *)
(***************************************************************************)
Stages == <<"fetch", "extract", "generate", "write", "publish">>
NoStage == "none"

\* the options commander hands over: -t/--task and -c/--create-mr
Options == [task : {"", "P-1"}, createMr : BOOLEAN]
NoOptions == [task |-> "", createMr |-> FALSE]

\* issue.fields.description
Descriptions == {Undef, Null, Str(<<>>), Str(<<"x">>)}
NoIssue == [key |-> <<>>, description |-> Undef]

\* the ticket and the completions a run of the command is given
CommandKeys == {<<"P", "1">>}
CommandCompletions ==
    {Doc("malformed", NoFields),
     Doc("object", ValidFields(<<"X">>)),
     Doc("object", [ValidFields(<<"X">>) EXCEPT !.commitMessage = Undef]),
     Doc("object", [ValidFields(<<"X">>) EXCEPT !.variables = Num(5)])}

JiraFailedMsg == <<"Issue Does Not Exist">>
GenerateFailedMsg == <<"Unexpected response format from Anthropic API">>
ForEachMsg == <<"templateAnalysis.variables.forEach is not a function">>

\* what stays as it is in a step of the command that does not call the publisher
pubRest == <<variant, cwd, entryCwd, dirs, defaultBranch, mrInfo, ran,
             cleanupCalls, cleanupDone, cloned, caught, delivered, detectIn,
             pushed, mrCalls, invocations, detected, lookup, config, message>>

\* lines 110-114: the catch block of handleCommand
Catch(stage, msg) ==
    /\ failedAt' = stage
    /\ printed' = printed \cup {LogError("Error:", msg)}
    /\ hpc' = "done"

\* lines 11-22: the module is loaded and builds its four collaborators
loadModule ==
    /\ hpc = "unloaded"
    /\ IF ConstructorThrows(variant, config)
          THEN \* the import fails: handleCommand never becomes available
               /\ hpc' = "loadFailed"
               /\ message' = IF config.token = ""
                                THEN <<"GITLAB_TOKEN environment variable is required">>
                                ELSE <<"REPO_NAME environment variable is required">>
               /\ UNCHANGED <<pc, printed>>
          ELSE /\ hpc' = "loaded"
               /\ pc' = "idle"
               \* lines 44-45 of part_001
               /\ printed' = IF variant = New
                                THEN {<<"Initializing GitLab client with base URL: ", baseUrl>>,
                                      <<"Target repository: ", config.repoName>>}
                                ELSE {}
               /\ UNCHANGED message
    /\ UNCHANGED <<variant, cwd, entryCwd, dirs, files, defaultBranch, mrInfo, ran,
                   cleanupCalls, cleanupDone, cloned, caught, delivered, detectIn,
                   pushed, mrCalls, invocations, detected, lookup, config>>
    /\ UNCHANGED <<options, issue, called, completed, failedAt, anVars, clVars, prVars>>

\* lines 24-34: up to the call of jira.findIssue
handleCommand ==
    /\ hpc = "loaded"
    /\ \E o \in Options :
         /\ options' = o
         /\ IF o.task = ""
               THEN hpc' = "done" /\ UNCHANGED called
               ELSE hpc' = "fetching" /\ called' = Append(called, "fetch")
    /\ UNCHANGED <<issue, completed, failedAt, pubVars, anVars, clVars, prVars>>

\* line 44 as a test for undefined only
HasDescription_WhenNotUndefined(d) == d # Undef

\* line 44: the test of issue.fields.description
HasDescription(d) == Truthy(d)

\* lines 34-47: the ticket arrives; the description decides about the rest
findIssueReturns ==
    /\ hpc = "fetching"
    /\ \E ok \in BOOLEAN, d \in Descriptions :
         IF ~ok
            THEN /\ Catch("fetch", JiraFailedMsg)
                 /\ UNCHANGED <<issue, called, completed, apc>>
            ELSE /\ issue' = [key |-> ticketKey, description |-> d]
                 /\ completed' = Append(completed, "fetch")
                 /\ UNCHANGED <<failedAt, printed>>
                 /\ IF HasDescription(d)
                       THEN /\ called' = Append(called, "extract")
                            /\ apc' = "start"
                            /\ hpc' = "analyzing"
                       ELSE /\ hpc' = "done"
                            /\ UNCHANGED <<called, apc>>
    /\ UNCHANGED <<options, pc, files, pubRest, ticketKey, completion, thrownAt,
                   outcome, clVars, prVars>>

\* lines 47-71: the analysis arrives and is printed; the generator is called
analyzeReturns ==
    /\ hpc = "analyzing"
    /\ apc = "done"
    /\ IF outcome.kind = "throw"
          THEN /\ Catch("extract", <<outcome.msg>>)
               /\ UNCHANGED <<called, completed>>
          ELSE /\ completed' = Append(completed, "extract")
               /\ IF outcome.analysis.variables.t # "array"
                     THEN \* line 52
                          /\ Catch("print", ForEachMsg)
                          /\ UNCHANGED called
                     ELSE /\ called' = Append(called, "generate")
                          /\ hpc' = "generating"
                          /\ UNCHANGED <<failedAt, printed>>
    /\ UNCHANGED <<options, issue, pc, files, pubRest, anVars, clVars, prVars>>

\* lines 67-83: the HTML arrives and is written under <cwd>/templates
generateReturns ==
    /\ hpc = "generating"
    /\ \E ok \in BOOLEAN, writeOk \in BOOLEAN :
         IF ~ok
            THEN /\ writeOk
                 /\ Catch("generate", GenerateFailedMsg)
                 /\ UNCHANGED <<called, completed, files>>
            ELSE /\ called' = Append(called, "write")
                 /\ IF writeOk
                       THEN /\ files' = files \cup {cwd}
                            /\ completed' = completed \o <<"generate", "write">>
                            /\ hpc' = "written"
                            /\ UNCHANGED <<failedAt, printed>>
                       ELSE /\ Catch("write", WriteFailedMsg)
                            /\ completed' = Append(completed, "generate")
                            /\ UNCHANGED files
    /\ UNCHANGED <<options, issue, pc, pubRest, anVars, clVars, prVars>>

\* line 86 with the flag ignored
ShouldPublish_Always(o) == TRUE

\* line 86: the test of options.createMr
ShouldPublish(o) == o.createMr

\* lines 88-97: the MergeRequestInfo built from the analysis
InfoOf(a) ==
    [title |-> a.mergeRequestTitle, description |-> a.mergeRequestDescription,
     branchName |-> a.branchName, commitMessage |-> a.commitMessage]

\* lines 86-109: the publisher is called, or the next steps are printed
publishOrAdvise ==
    /\ hpc = "written"
    /\ IF ShouldPublish(options)
          THEN /\ Invocation(InfoOf(outcome.analysis))
               /\ called' = Append(called, "publish")
               /\ hpc' = "publishing"
               /\ UNCHANGED printed
          ELSE /\ hpc' = "done"
               /\ UNCHANGED <<called, pubVars>>
    /\ UNCHANGED <<options, issue, completed, failedAt, anVars, clVars, prVars>>

\* lines 88-97 and 110-114: createTemplateAndMergeRequest settles
publisherReturns ==
    /\ hpc = "publishing"
    /\ pc \in {"returned", "thrown"}
    /\ IF pc = "thrown"
          THEN /\ Catch("publish", message)
               /\ UNCHANGED completed
          ELSE /\ completed' = Append(completed, "publish")
               /\ hpc' = "done"
               /\ UNCHANGED <<failedAt, printed>>
    /\ UNCHANGED <<options, issue, called, pc, files, pubRest, anVars, clVars, prVars>>

(***************************************************************************)
(* Prompt construction                                                     *)
(***************************************************************************)
MaxValueLen == 2        \* parts of a templateName, description or ticket text
MaxVariables == 2       \* entries of the variables list

\* the placeholder tokens of the two templates
PhTemplateName == "{{templateName}}"
PhDescription == "{{description}}"
PhVariables == "{{variables}}"
PhTicketKey == "{{TICKET_KEY}}"
\* the replacement pattern of String.prototype.replace for the matched text
MatchedPattern == "$&"

\* texts are sequences of parts: a placeholder token, the pattern $&, or a
\* stretch of other text. Lines 18-38 of AddCommand.ts:
CODE_GENERATION_PROMPT ==
    <<"You are ... Template Name: ", PhTemplateName, "\nDescription: ", PhDescription,
      "\n\nVariables to include in the template:\n", PhVariables,
      "\n\nRequirements: ... using the format ", "{{variable_name}}", " ... formatting.">>

\* lines 17-44 of TemplateAnalyzer.ts
ANALYSIS_PROMPT ==
    <<"Analyze the following ... Ticket Key: ", PhTicketKey,
      "\n\nTicket Description to Analyze:\n">>

\* the values a caller may pass
ValueParts == {"a", PhDescription, PhVariables, MatchedPattern}
Values == StringsUpTo(ValueParts, MaxValueLen)
VariableNames == {<<"v">>, <<PhVariables>>}
VariableLists == StringsUpTo(VariableNames, MaxVariables)
PromptKeys == {<<"P-1">>, <<MatchedPattern>>}
TicketTexts == {<<>>, <<"a">>, <<PhTicketKey>>}

\* line 55: variables.map(variable => `- ${variable}`).join('\n')
RECURSIVE variablesList(_)
variablesList(vs) ==
    IF vs = <<>> THEN <<>>
    ELSE IF Len(vs) = 1 THEN <<"- ">> \o Head(vs)
    ELSE <<"- ">> \o Head(vs) \o <<"\n">> \o variablesList(Tail(vs))

\* GetSubstitution: $& in the replacement stands for the matched text
RECURSIVE Expand(_, _)
Expand(value, matched) ==
    IF value = <<>> THEN <<>>
    ELSE (IF Head(value) = MatchedPattern THEN <<matched>> ELSE <<Head(value)>>)
         \o Expand(Tail(value), matched)

\* String.prototype.replace(pattern, replacement) with a string pattern:
\* only the first occurrence is replaced
Replace(text, pattern, replacement) ==
    LET hits == {i \in 1..Len(text) : text[i] = pattern}
    IN  IF hits = {} THEN text
        ELSE LET first == CHOOSE i \in hits : \A j \in hits : i <= j
             IN  SubSeq(text, 1, first - 1) \o Expand(replacement, pattern)
                 \o SubSeq(text, first + 1, Len(text))

\* lines 58-61 of AddCommand.ts
GenerationPrompt(name, desc, vs) ==
    Replace(Replace(Replace(CODE_GENERATION_PROMPT, PhTemplateName, name),
                    PhDescription, desc),
            PhVariables, variablesList(vs))

\* lines 76-77 of TemplateAnalyzer.ts
AnalysisPrompt(key, text) == Replace(ANALYSIS_PROMPT, PhTicketKey, key) \o text

\* lines 54-61 of AddCommand.ts
buildGenerationPrompt ==
    /\ ppc = "start"
    /\ prompt' = GenerationPrompt(templateName, description, variables)
    /\ ppc' = "generation"
    /\ UNCHANGED <<templateName, description, variables, promptKey, ticketText,
                   analysisPrompt>>

\* lines 76-77 of TemplateAnalyzer.ts
buildAnalysisPrompt ==
    /\ ppc = "generation"
    /\ analysisPrompt' = AnalysisPrompt(promptKey, ticketText)
    /\ ppc' = "built"
    /\ UNCHANGED <<templateName, description, variables, promptKey, ticketText,
                   prompt>>

(***************************************************************************)
(* Idle values of the parts a specification does not exercise              *)
(***************************************************************************)
NoOutcome == [kind |-> "none", name |-> "", msg |-> "", analysis |-> NoFields]

PubIdle ==
    /\ variant = New
    /\ pc = "off"
    /\ cwd = <<>>
    /\ entryCwd = <<>>
    /\ dirs = {}
    /\ files = {}
    /\ defaultBranch = MainB
    /\ mrInfo = NoInfo
    /\ ran = <<>>
    /\ cleanupCalls = 0
    /\ cleanupDone = FALSE
    /\ cloned = FALSE
    /\ caught = NoError
    /\ delivered = NoError
    /\ detectIn = NoDetect
    /\ pushed = {}
    /\ mrCalls = <<>>
    /\ invocations = 0
    /\ detected = NoBranch
    /\ lookup = NoLookup
    /\ config = [token |-> "glpat-A", repoName |-> RepoPath]
    /\ message = NoMessage
    /\ printed = {}

AnIdle ==
    /\ apc = "off"
    /\ ticketKey = <<>>
    /\ completion = Doc("malformed", NoFields)
    /\ thrownAt = "none"
    /\ outcome = NoOutcome

ClIdle ==
    /\ cpc = "off"
    /\ body = <<>>
    /\ wrapping = [fence |-> Unfenced, lead |-> FALSE, trail |-> FALSE]
    /\ wrapped = <<>>
    /\ cleanedBody = <<>>
    /\ cleanedWrapped = <<>>

CmdIdle ==
    /\ hpc = "off"
    /\ options = NoOptions
    /\ issue = NoIssue
    /\ called = <<>>
    /\ completed = <<>>
    /\ failedAt = NoStage

PrIdle ==
    /\ ppc = "off"
    /\ templateName = <<>>
    /\ description = <<>>
    /\ variables = <<>>
    /\ promptKey = <<>>
    /\ ticketText = <<>>
    /\ prompt = <<>>
    /\ analysisPrompt = <<>>

(***************************************************************************)
(* Specification of the Repository Publisher                               *)
(***************************************************************************)
Init ==
    /\ variant \in Variants
    /\ pc = "idle"
    /\ cwd \in StartDirs
    /\ entryCwd = cwd
    /\ dirs \in SUBSET {TempPath(cwd), TempPath(Parent(cwd))}
    /\ files = {}
    /\ defaultBranch = MainB
    /\ mrInfo = NoInfo
    /\ ran = <<>>
    /\ cleanupCalls = 0
    /\ cleanupDone = FALSE
    /\ cloned = FALSE
    /\ caught = NoError
    /\ delivered = NoError
    /\ detectIn = NoDetect
    /\ pushed = {}
    /\ mrCalls = <<>>
    /\ invocations = 0
    /\ detected = NoBranch
    /\ lookup = NoLookup
    /\ config \in ConfigsOf(variant)
    /\ message = NoMessage
    /\ printed = {}
    /\ AnIdle
    /\ ClIdle
    /\ CmdIdle
    /\ PrIdle

Next ==
    \/ createTemplateAndMergeRequest /\ UNCHANGED <<anVars, clVars, cmdVars, prVars>>
    \/ cloneRepository /\ UNCHANGED <<anVars, clVars, cmdVars, prVars>>
    \/ detectDefaultBranch /\ UNCHANGED <<anVars, clVars, cmdVars, prVars>>
    \/ createBranch /\ UNCHANGED <<anVars, clVars, cmdVars, prVars>>
    \/ saveTemplate /\ UNCHANGED <<anVars, clVars, cmdVars, prVars>>
    \/ commitAndPush /\ UNCHANGED <<anVars, clVars, cmdVars, prVars>>
    \/ createMergeRequest /\ UNCHANGED <<anVars, clVars, cmdVars, prVars>>
    \/ cleanupInTry /\ UNCHANGED <<anVars, clVars, cmdVars, prVars>>
    \/ cleanupInCatch /\ UNCHANGED <<anVars, clVars, cmdVars, prVars>>

Spec == Init /\ [][Next]_vars


(***************************************************************************)
(* Claims about the Repository Publisher                                   *)
(***************************************************************************)
\* control is back at the caller of createTemplateAndMergeRequest
AtCaller == pc \in {"returned", "thrown"}

\* C1: in one invocation of createTemplateAndMergeRequest cleanup() is
\* executed exactly once, whether the invocation succeeds or any stage from
\* clone onward (cleanup included) fails.
C1_CleanupExactlyOnce == AtCaller => cleanupCalls = 1

StageOrder == <<"clone", "detect", "branch", "save", "commit", "push", "mr", "cleanup">>
StageIndex(st) == CHOOSE i \in 1..Len(StageOrder) : StageOrder[i] = st

\* the stages a caught error can come from
FailedStages(e) ==
    CASE e = ErrClone -> {"clone"}
      [] e = ErrBranch -> {"branch"}
      [] e = ErrSave -> {"save"}
      [] e = ErrCommit -> {"commit", "push"}
      [] e = ErrMR -> {"mr"}
      [] e = ErrCleanupTry -> {"cleanup"}
      [] OTHER -> {}

\* position in ran of the stage whose failure was caught
FailIndex ==
    LET hits == {i \in 1..Len(ran) : ran[i] \in FailedStages(caught)}
    IN  CHOOSE i \in hits : \A j \in hits : IF caught = ErrCleanupTry THEN i <= j ELSE j <= i

RanInOrder ==
    \A i, j \in 1..Len(ran) :
        i < j => \/ StageIndex(ran[i]) < StageIndex(ran[j])
                 \/ ran[j] = "cleanup"

\* C2: the stages run in the fixed order clone, detect default branch,
\* create branch, write artifact, commit, push, create merge request,
\* cleanup; when a stage after a successful clone fails, no later stage
\* other than cleanup runs, cleanup completes before the error reaches the
\* caller, and the scratch workspace no longer exists at that moment.
C2_FailureAfterCloneCleansUp ==
    /\ RanInOrder
    /\ (pc = "thrown" /\ cloned) =>
          /\ \A i \in 1..Len(ran) : i > FailIndex => ran[i] = "cleanup"
          /\ ran[Len(ran)] = "cleanup"
          /\ cleanupDone
          /\ TempPath(entryCwd) \notin dirs

\* C3: when the clone step fails, no later publisher stage runs and the
\* scratch workspace the clone targeted does not exist when the error
\* reaches the caller.
C3_CloneFailureLeavesNoScratch ==
    (pc = "thrown" /\ caught = ErrClone) =>
        /\ \A i \in 1..Len(ran) : ran[i] \in {"clone", "cleanup"}
        /\ TempPath(entryCwd) \notin dirs

\* C4: on every path through createTemplateAndMergeRequest the working
\* directory at the moment control returns to the caller equals the
\* working directory at entry.
C4_WorkingDirectoryRestored == AtCaller => cwd = entryCwd

\* C5: when a stage fails with error E and the cleanup this failure
\* triggers fails as well, the error delivered to the caller is E.
C5_CleanupErrorDoesNotMask ==
    (pc = "thrown" /\ caught # NoError /\ ~cleanupDone) => delivered = caught

\* the default branch the specification prescribes for the answers a
ClaimedDefaultBranch(a) ==
    IF a.show = ShowHead THEN a.head
    ELSE IF a.show = ShowNoHead /\ a.listOk /\ MainB \in a.branches THEN MainB
    ELSE IF a.show = ShowNoHead /\ a.listOk /\ MasterB \in a.branches THEN MasterB
    ELSE MainB

\* C10: after every run of detectDefaultBranch the detected branch is the
\* advertised HEAD branch if there is one, else main if a remote branch
\* named exactly main exists, else master if one named exactly master
\* exists, else (nothing determinable, or the query fails) main.
C10_DetectedDefaultBranch ==
    (pc = "branch" /\ detectIn # NoDetect) =>
        defaultBranch = ClaimedDefaultBranch(detectIn)


\* C11: every merge-request creation call has as source the feature branch
\* created and pushed in the same invocation, as destination the default
\* branch determined by that invocation's detect-default-branch stage,
\* carries the supplied title and description and requests deletion of the
\* source branch on merge; an invocation that returns successfully has
\* issued exactly one such call.
C11_MergeRequestCall ==
    /\ \A i \in 1..Len(mrCalls) :
          /\ mrCalls[i].source = mrInfo.branchName
          /\ mrCalls[i].source \in pushed
          /\ mrCalls[i].target = detected
          /\ mrCalls[i].title = mrInfo.title
          /\ mrCalls[i].description = mrInfo.description
          /\ mrCalls[i].removeSourceBranch
    /\ pc = "returned" => Len(mrCalls) = 1

\* C12: createMergeRequest resolves the project to the one the exact path
\* lookup returned when that lookup succeeds; when it fails, to the
\* membership-search result whose full path equals the configured path if
\* there is one, otherwise to a search result whose path or name equals the
\* final segment of the configured path. The merge request is created
\* against the resolved project; if none resolves the stage fails and no
\* merge-request creation call is issued.
C12_ProjectResolution ==
    (variant = New /\ lookup.asked) =>
        LET list == lookup.list
            lastSegment == repoName[Len(repoName)]
            exact == {k \in 1..Len(list) : list[k].path_with_namespace = repoName}
            bySegment == {k \in 1..Len(list) :
                             list[k].path = lastSegment \/ list[k].name = lastSegment}
            resolved == IF lookup.direct # NoProject THEN {lookup.direct.id}
                        ELSE IF ~lookup.searchOk THEN {}
                        ELSE IF exact # {} THEN {list[k].id : k \in exact}
                        ELSE {list[k].id : k \in bySegment}
        IN  IF resolved = {}
               THEN mrCalls = <<>> /\ pc = "catch" /\ caught = ErrMR
               ELSE /\ Len(mrCalls) = 1
                    /\ mrCalls[1].project \in resolved

\* the exact lookup failed, the search returned a project with another path
\* whose name is the final segment before the project of the configured
\* path, and the merge request was created against the latter
C12_Witness ==
    /\ variant = New
    /\ lookup.asked
    /\ lookup.direct = NoProject
    /\ Len(lookup.list) = 2
    /\ lookup.list[1].id = 3
    /\ lookup.list[2].id = 1
    /\ Len(mrCalls) = 1
    /\ mrCalls[1].project = 1
    /\ mrCalls[1].created

\* C18: whichever stage fails, the only directory tree an invocation of
\* createTemplateAndMergeRequest removes is the scratch workspace temp_git
\* in the working directory the invocation started in; no temp_git under
\* another directory, such as the parent of that directory, is removed.
C18_OnlyOwnScratchRemoved ==
    [][\A d \in dirs \ dirs' : IsPrefix(TempPath(entryCwd), d)]_vars

(***************************************************************************)
(* Specification of the Metadata Extractor                                 *)
(***************************************************************************)
InitAnalyzer ==
    /\ apc = "start"
    /\ ticketKey \in TicketKeys
    /\ completion \in Completions
    /\ thrownAt = "none"
    /\ outcome = NoOutcome
    /\ PubIdle
    /\ ClIdle
    /\ CmdIdle
    /\ PrIdle

NextAnalyzer ==
    \/ analyzeTicketDescription /\ UNCHANGED <<pubVars, clVars, cmdVars, prVars>>
    \/ generateContentFails /\ UNCHANGED <<pubVars, clVars, cmdVars, prVars>>
    \/ parseCompletion /\ UNCHANGED <<pubVars, clVars, cmdVars, prVars>>

SpecAnalyzer == InitAnalyzer /\ [][NextAnalyzer]_vars

\* the completion was received and analyzeTicketDescription has finished
Analyzed == apc = "done" /\ thrownAt # "backend"

\* the candidate has every required field present and truthy
AllSevenTruthy(doc) ==
    /\ doc.kind = "object"
    /\ \A f \in RequiredFields : Truthy(doc.fields[f])

\* C6: analyzeTicketDescription returns a TemplateAnalysis only when the
\* cleaned completion parses as JSON and all seven fields are present and
\* truthy; a candidate with any field missing or falsy makes it fail, and
\* what it returns never lacks a field.
C6_NoPartialAnalysis ==
    Analyzed =>
        /\ outcome.kind = "return" =>
              /\ completion.kind # "malformed"
              /\ AllSevenTruthy(completion)
              /\ \A f \in RequiredFields : Truthy(outcome.analysis[f])
        /\ ~AllSevenTruthy(completion) => outcome.kind = "throw"

\* a candidate that lacks exactly one of the seven fields has been rejected
C6_Witness ==
    /\ Analyzed
    /\ completion.kind = "object"
    /\ Cardinality({f \in RequiredFields : ~Truthy(completion.fields[f])}) = 1
    /\ completion.fields.commitMessage = Undef
    /\ outcome.kind = "throw"

\* C7: the failure surfaced for a completion that is not valid JSON is
\* distinguishable, by error kind or message, from the failure surfaced for
\* valid JSON that lacks a required field.
C7_ParseAndValidationFailuresDiffer ==
    (Analyzed /\ thrownAt = "validate") =>
        LET parseFailure == ParseAndValidate(Doc("malformed", NoFields), ticketKey)
        IN  <<outcome.name, outcome.msg>> # <<parseFailure.name, parseFailure.msg>>

\* C8: if the lower-cased branchName does not start with the lower-cased
\* ticketKey the returned branchName is lowercase(ticketKey) + "-" +
\* lowercase(branchName), otherwise it is the input unchanged; either way
\* the lower-cased result starts with the lower-cased ticket key.
C8_BranchNameNormalized ==
    (Analyzed /\ outcome.kind = "return") =>
        LET given == completion.fields.branchName.s
            result == outcome.analysis.branchName.s
            lowKey == toLowerCase(ticketKey)
        IN  /\ IF IsPrefix(lowKey, toLowerCase(given))
                  THEN result = given
                  ELSE result = lowKey \o <<"-">> \o toLowerCase(given)
            /\ IsPrefix(lowKey, toLowerCase(result))

\* a mixed-case branch name without the key was prefixed with the key
C8_Witness ==
    /\ Analyzed
    /\ outcome.kind = "return"
    /\ ticketKey = <<"P", "1">>
    /\ completion.fields.branchName.s = <<"X", "-", "P">>
    /\ outcome.analysis.branchName.s = <<"p", "1", "-", "x", "-", "p">>

(***************************************************************************)
(* Specification of the command                                            *)
(***************************************************************************)
InitCommand ==
    /\ hpc = "unloaded"
    /\ options = NoOptions
    /\ issue = NoIssue
    /\ called = <<>>
    /\ completed = <<>>
    /\ failedAt = NoStage
    /\ variant \in Variants
    /\ pc = "off"
    /\ cwd \in StartDirs
    /\ entryCwd = cwd
    /\ dirs \in SUBSET {TempPath(cwd), TempPath(Parent(cwd))}
    /\ files = {}
    /\ defaultBranch = MainB
    /\ mrInfo = NoInfo
    /\ ran = <<>>
    /\ cleanupCalls = 0
    /\ cleanupDone = FALSE
    /\ cloned = FALSE
    /\ caught = NoError
    /\ delivered = NoError
    /\ detectIn = NoDetect
    /\ pushed = {}
    /\ mrCalls = <<>>
    /\ invocations = 0
    /\ detected = NoBranch
    /\ lookup = NoLookup
    /\ config \in Configs
    /\ message = NoMessage
    /\ printed = {}
    /\ apc = "off"
    /\ ticketKey \in CommandKeys
    /\ completion \in CommandCompletions
    /\ thrownAt = "none"
    /\ outcome = NoOutcome
    /\ ClIdle
    /\ PrIdle

NextCommand ==
    \/ loadModule
    \/ handleCommand
    \/ findIssueReturns
    \/ analyzeTicketDescription /\ UNCHANGED <<pubVars, clVars, cmdVars, prVars>>
    \/ generateContentFails /\ UNCHANGED <<pubVars, clVars, cmdVars, prVars>>
    \/ parseCompletion /\ UNCHANGED <<pubVars, clVars, cmdVars, prVars>>
    \/ analyzeReturns
    \/ generateReturns
    \/ publishOrAdvise
    \/ cloneRepository /\ UNCHANGED <<anVars, clVars, cmdVars, prVars>>
    \/ detectDefaultBranch /\ UNCHANGED <<anVars, clVars, cmdVars, prVars>>
    \/ createBranch /\ UNCHANGED <<anVars, clVars, cmdVars, prVars>>
    \/ saveTemplate /\ UNCHANGED <<anVars, clVars, cmdVars, prVars>>
    \/ commitAndPush /\ UNCHANGED <<anVars, clVars, cmdVars, prVars>>
    \/ createMergeRequest /\ UNCHANGED <<anVars, clVars, cmdVars, prVars>>
    \/ cleanupInTry /\ UNCHANGED <<anVars, clVars, cmdVars, prVars>>
    \/ cleanupInCatch /\ UNCHANGED <<anVars, clVars, cmdVars, prVars>>
    \/ publisherReturns

SpecCommand == InitCommand /\ [][NextCommand]_vars

\* handleCommand has been entered and is past the ticket fetch
FetchReturned == "fetch" \in {completed[i] : i \in 1..Len(completed)}

\* C13: in one run of handleCommand the stages are invoked at most once and
\* in the order fetch, extract, generate, write, publish; a stage is invoked
\* only after the stage before it returned successfully, the publisher only
\* when the create-mr option is set; after a failure no later stage is
\* invoked, so nothing is written or published when extraction or
\* generation failed.
C13_StagesInOrder ==
    /\ IsPrefix(called, Stages)
    /\ IsPrefix(completed, called)
    /\ \A i \in 2..Len(called) : Len(completed) >= i - 1
    /\ "publish" \in {called[i] : i \in 1..Len(called)} => options.createMr
    /\ pc \notin {"off", "idle"} => called = Stages
    /\ failedAt # NoStage =>
          /\ hpc = "done"
          /\ called # <<>>
          /\ failedAt \in {Stages[i] : i \in 1..Len(Stages)} =>
                /\ called[Len(called)] = failedAt
                /\ Len(completed) = Len(called) - 1
    /\ failedAt \in {"extract", "print", "generate"} =>
          /\ files = {}
          /\ ran = <<>>
          /\ invocations = 0
    /\ (apc = "done" /\ outcome.kind = "throw") => Len(called) = 2

\* a run with create-mr went through the five stages, each returning
C13_Witness ==
    /\ hpc = "done"
    /\ options.createMr
    /\ called = Stages
    /\ completed = Stages
    /\ pc = "returned"
    /\ files # {}

\* C14: when the fetched ticket's description is empty or absent the
\* extractor, the generator, the writer and the publisher are never invoked
\* and no artifact file is written.
C14_NoDescriptionNoArtifact ==
    (FetchReturned /\ issue.description \in {Undef, Null, Str(<<>>)}) =>
        /\ called = <<"fetch">>
        /\ apc = "off"
        /\ files = {}
        /\ ran = <<>>
        /\ invocations = 0

\* a ticket with an empty description has been handled with create-mr set
C14_Witness ==
    /\ hpc = "done"
    /\ options.createMr
    /\ completed = <<"fetch">>
    /\ issue.description = Str(<<>>)
    /\ failedAt = NoStage

\* C15: with GITLAB_TOKEN or REPO_NAME absent or empty the construction of
\* the publisher fails, no network call was issued before that failure, and
\* the clone stage is never reached.
C15_MissingCredentialFailsAtConstruction ==
    (hpc # "unloaded" /\ (config.token = "" \/ config.repoName = "")) =>
        /\ hpc = "loadFailed"
        /\ called = <<>>
        /\ ran = <<>>

\* the text contains the hosting token
ContainsToken(text) == \E i \in 1..Len(text) : text[i] = config.token

\* C16: on every path of a run, failures of the publisher stages included,
\* no line printed by the publisher or by handleCommand contains the
\* hosting token.
C16_TokenNeverPrinted ==
    config.token # "" => \A line \in printed : ~ContainsToken(line)

(***************************************************************************)
(* Specification of the prompt construction                                *)
(***************************************************************************)
InitPrompt ==
    /\ ppc = "start"
    /\ templateName \in Values
    /\ description \in Values
    /\ variables \in VariableLists
    /\ promptKey \in PromptKeys
    /\ ticketText \in TicketTexts
    /\ prompt = <<>>
    /\ analysisPrompt = <<>>
    /\ PubIdle
    /\ AnIdle
    /\ ClIdle
    /\ CmdIdle

NextPrompt ==
    \/ buildGenerationPrompt /\ UNCHANGED <<pubVars, anVars, clVars, cmdVars>>
    \/ buildAnalysisPrompt /\ UNCHANGED <<pubVars, anVars, clVars, cmdVars>>

SpecPrompt == InitPrompt /\ [][NextPrompt]_vars

\* the template with every placeholder token replaced by its value
RECURSIVE Substituted(_, _, _)
Substituted(template, placeholders, value) ==
    IF template = <<>> THEN <<>>
    ELSE (IF Head(template) \in placeholders THEN value[Head(template)]
                                             ELSE <<Head(template)>>)
         \o Substituted(Tail(template), placeholders, value)

\* C17: for every templateName, description and variables list, values with
\* placeholder-like text included, the code-generation prompt is the fixed
\* template with {{templateName}}, {{description}} and {{variables}} each
\* replaced by the supplied value, verbatim, no placeholder of the template
\* left unresolved; likewise the analysis prompt has {{TICKET_KEY}} replaced
\* by the ticket key.
C17_PlaceholdersReplaced ==
    /\ ppc \in {"generation", "built"} =>
          prompt = Substituted(CODE_GENERATION_PROMPT,
                               {PhTemplateName, PhDescription, PhVariables},
                               [p \in {PhTemplateName, PhDescription, PhVariables} |->
                                  IF p = PhTemplateName THEN templateName
                                  ELSE IF p = PhDescription THEN description
                                  ELSE variablesList(variables)])
    /\ ppc = "built" =>
          analysisPrompt = Substituted(ANALYSIS_PROMPT, {PhTicketKey},
                                       [p \in {PhTicketKey} |-> promptKey])
                           \o ticketText

(***************************************************************************)
(* Specification of the fence stripping                                    *)
(***************************************************************************)
InitClean ==
    /\ cpc = "start"
    /\ body \in Bodies
    /\ wrapping \in Wrappings
    /\ wrapped = Wrap(body, wrapping)
    /\ cleanedBody = <<>>
    /\ cleanedWrapped = <<>>
    /\ PubIdle
    /\ AnIdle
    /\ CmdIdle
    /\ PrIdle

NextClean ==
    \/ applyCleanJsonResponse /\ UNCHANGED <<pubVars, anVars, cmdVars, prVars>>
    \/ applyCleanGeneratedCode /\ UNCHANGED <<pubVars, anVars, cmdVars, prVars>>

SpecClean == InitClean /\ [][NextClean]_vars

\* C9: for every completion text and every wrapping of it in a fenced code
\* block (with or without a language tag) and/or in single stray leading or
\* trailing backticks, cleanJsonResponse and cleanGeneratedCode each return
\* exactly what they return for the text with no fencing at all.
C9_FencingMakesNoDifference ==
    cpc \in {"json", "html"} => cleanedWrapped = cleanedBody

====
